---- MODULE Spec2Model ----
(***************************************************************************)
(* A model of libbpf-rs' program.rs: the unloaded program handle           *)
(* (OpenProgram), the loaded program handle (Program), the attach family,  *)
(* pin/unpin, the test-run facility and the classification enums.          *)
(*                                                                         *)
(* The kernel and libbpf are the environment.  A kernel primitive is an    *)
(* operator over the kernel-side state; where the primitive may answer in  *)
(* more than one way the answer is an input of the action that calls it.   *)
(***************************************************************************)
EXTENDS Integers, Sequences, FiniteSets, TLC

(***************************************************************************)
(* Bounds of the model.                                                    *)
(***************************************************************************)
\* Kernel links the model lets exist at once (attach fails beyond it).
MaxLinks == 2
\* Longest ordinary test-run buffer the model enumerates.
MaxBuf == 1

(***************************************************************************)
(* Integer widths.  The model checker's integers are narrower than a u32,  *)
(* so a machine integer is a pair <<hi, lo>> standing for hi * 2^16 + lo,  *)
(* with lo a 16-bit limb.  A u32 has hi below 2^16; a usize may have more. *)
(***************************************************************************)
Limb == 256 * 256
W(n) == <<n \div Limb, n % Limb>>
\* u32::MAX, the discriminant of the Unknown variants.
U32Max == <<Limb - 1, Limb - 1>>
\* `x as u32` of a usize: the bits above the 32nd are dropped.
AsU32(x) == <<x[1] % Limb, x[2]>>

(***************************************************************************)
(* Result<T>.                                                              *)
(***************************************************************************)
Ok(v) == [ok |-> TRUE, val |-> v]
Err(e) == [ok |-> FALSE, err |-> e]
Unit == "()"

\* Error::from_raw_os_error(code)
from_raw_os_error(code) == [kind |-> "Os", errno |-> code]

\* util::parse_ret: a negative status is the negated errno.
parse_ret(ret) == IF ret < 0 THEN Err(from_raw_os_error(-ret)) ELSE Ok(Unit)

\* errno values the environment answers with.
EPERM == 1
ENOENT == 2
EEXIST == 17
EINVAL == 22

(***************************************************************************)
(* Strings and paths are sequences of bytes; 0 is the NUL byte.            *)
(***************************************************************************)
NUL == 0
HasNul(s) == \E i \in 1..Len(s) : s[i] = NUL

\* util::str_to_cstring: CString::new refuses an interior NUL; the C string
\* is the bytes followed by the terminator.
str_to_cstring(s) ==
    IF HasNul(s) THEN Err([kind |-> "InvalidInput"]) ELSE Ok(Append(s, NUL))

\* util::path_to_cstring: the same encoding, of a path.
path_to_cstring(p) ==
    IF HasNul(p) THEN Err([kind |-> "InvalidInput"]) ELSE Ok(Append(p, NUL))

(***************************************************************************)
(* Classification enums.                                                   *)
(***************************************************************************)
\* enum ProgramType, in declaration order: the i-th variant has
\* discriminant i - 1; Unknown = u32::MAX is apart.
ProgramTypeVariants ==
    << "Unspec", "SocketFilter", "Kprobe", "SchedCls", "SchedAct",
       "Tracepoint", "Xdp", "PerfEvent", "CgroupSkb", "CgroupSock", "LwtIn",
       "LwtOut", "LwtXmit", "SockOps", "SkSkb", "CgroupDevice", "SkMsg",
       "RawTracepoint", "CgroupSockAddr", "LwtSeg6local", "LircMode2",
       "SkReuseport", "FlowDissector", "CgroupSysctl",
       "RawTracepointWritable", "CgroupSockopt", "Tracing", "StructOps",
       "Ext", "Lsm", "SkLookup", "Syscall" >>

\* enum ProgramAttachType, in declaration order, Unknown = u32::MAX apart.
ProgramAttachTypeVariants ==
    << "CgroupInetIngress", "CgroupInetEgress", "CgroupInetSockCreate",
       "CgroupSockOps", "SkSkbStreamParser", "SkSkbStreamVerdict",
       "CgroupDevice", "SkMsgVerdict", "CgroupInet4Bind", "CgroupInet6Bind",
       "CgroupInet4Connect", "CgroupInet6Connect", "CgroupInet4PostBind",
       "CgroupInet6PostBind", "CgroupUdp4Sendmsg", "CgroupUdp6Sendmsg",
       "LircMode2", "FlowDissector", "CgroupSysctl", "CgroupUdp4Recvmsg",
       "CgroupUdp6Recvmsg", "CgroupGetsockopt", "CgroupSetsockopt",
       "TraceRawTp", "TraceFentry", "TraceFexit", "ModifyReturn", "LsmMac",
       "TraceIter", "CgroupInet4Getpeername", "CgroupInet6Getpeername",
       "CgroupInet4Getsockname", "CgroupInet6Getsockname", "XdpDevmap",
       "CgroupInetSockRelease", "XdpCpumap", "SkLookup", "Xdp",
       "SkSkbVerdict", "SkReuseportSelect", "SkReuseportSelectOrMigrate",
       "PerfEvent" >>

Unknown == "Unknown"

\* The variants of an enum given by its declaration list.
VariantsOf(decl) == {decl[i] : i \in 1..Len(decl)} \cup {Unknown}

\* `variant as u32` for an enum given by its declaration list.
AsDiscriminant(decl, v) ==
    IF v = Unknown THEN U32Max
    ELSE W((CHOOSE i \in 1..Len(decl) : decl[i] = v) - 1)

\* The codes an enum declares.
CodesOf(decl) == {AsDiscriminant(decl, v) : v \in VariantsOf(decl)}

\* derive(TryFromPrimitive): Ok(variant) for a declared discriminant,
\* Err otherwise.
TryFromPrimitive(decl, n) ==
    IF n[1] = 0 /\ n[2] \in 0..(Len(decl) - 1) THEN Ok(decl[n[2] + 1])
    ELSE IF n = U32Max THEN Ok(Unknown)
    ELSE Err([kind |-> "TryFromPrimitiveError", number |-> n])

ProgramType_try_from(n) == TryFromPrimitive(ProgramTypeVariants, n)
ProgramAttachType_try_from(n) == TryFromPrimitive(ProgramAttachTypeVariants, n)
ProgramType_as_u32(v) == AsDiscriminant(ProgramTypeVariants, v)
ProgramAttachType_as_u32(v) == AsDiscriminant(ProgramAttachTypeVariants, v)

(***************************************************************************)
(* State.                                                                  *)
(***************************************************************************)
VARIABLES
    handle,    \* the program handle: an OpenProgram or a Program
    loads,     \* how many times the handle went from Unloaded to Loaded
    desc,      \* libbpf's bpf_program behind handle.ptr
    links,     \* the Link handles: none, live or released, by link
    klinks,    \* the kernel's links: none, attached or detached
    detaches,  \* the kernel detach calls made, by link
    sockmaps,  \* the kernel's attachments made by fd (the legacy primitive)
    pinned,    \* the occupied pin paths
    input,     \* the Input the caller holds for the next test run
    last       \* the latest call: its name, its arguments, what it returned

vars ==
    <<handle, loads, desc, links, klinks, detaches, sockmaps, pinned, input,
      last>>

NULL == 0
LinkIds == 1..MaxLinks

\* Option<&[u8]>: None, or a slice: a pointer, never null, and a length.
None == [some |-> FALSE]
Some(ptr, len) == [some |-> TRUE, ptr |-> ptr, len |-> len]
NullPtr == "null"

\* Input::default()
DefaultInput ==
    [context_in |-> None, context_out |-> None, data_in |-> None,
     data_out |-> None, cpu |-> 0, flags |-> 0]

\* What bpf_program__section_name and bpf_program__name answer.
SectionName == "kprobe/do_sys_openat2"
ProgName == "handle_openat"

\* OpenProgram::new: the section is read once and kept in the handle.
OpenProgram_new(d) == [type |-> "OpenProgram", section |-> d.section]

\* Program::new: the name and the section are read once and kept.
Program_new(d) == [type |-> "Program", name |-> d.name, section |-> d.section]

\* The bpf_program of a freshly opened object.
InitDesc ==
    [type |-> W(0), expected_attach_type |-> W(0), ifindex |-> 0, log_level |-> 0,
     autoload |-> TRUE, flags |-> 0, attach_target |-> <<>>,
     name |-> ProgName, section |-> SectionName]

Init ==
    /\ desc = InitDesc
    /\ handle = OpenProgram_new(InitDesc)
    /\ loads = 0
    /\ links = [k \in LinkIds |-> "none"]
    /\ klinks = [k \in LinkIds |-> "none"]
    /\ detaches = [k \in LinkIds |-> 0]
    /\ sockmaps = {}
    /\ pinned = {}
    /\ input = DefaultInput
    /\ last = [op |-> "new", res |-> Ok("OpenProgram")]

(***************************************************************************)
(* Which handle has which method.                                          *)
(***************************************************************************)
\* impl OpenProgram
OpenProgramMethods ==
    {"set_prog_type", "prog_type", "set_attach_type", "set_ifindex",
     "set_log_level", "section", "name", "set_autoload",
     "set_attach_target", "set_flags", "insn_cnt", "insns"}

\* The attach variants that return a Link.
LinkAttachMethods ==
    {"attach", "attach_cgroup", "attach_perf_event", "attach_uprobe",
     "attach_uprobe_with_opts", "attach_kprobe", "attach_ksyscall",
     "attach_tracepoint", "attach_tracepoint_with_opts",
     "attach_raw_tracepoint", "attach_lsm", "attach_trace", "attach_xdp",
     "attach_netns", "attach_usdt", "attach_usdt_with_opts", "attach_iter"}

\* impl Program (the methods that take self)
ProgramMethods ==
    {"name", "section", "prog_type", "flags", "attach_type", "autoload",
     "log_level", "pin", "unpin", "attach_sockmap", "test_run", "insn_cnt",
     "insns"} \cup LinkAttachMethods

\* A variant of Methods: the attach entry point is also offered before load.
MethodsBeforeLoad(type) ==
    CASE type = "OpenProgram" -> OpenProgramMethods \cup {"attach_kprobe"}
      [] type = "Program" -> ProgramMethods
      [] OTHER -> {}

\* The methods of a handle of the given type.
Methods(type) ==
    CASE type = "OpenProgram" -> OpenProgramMethods
      [] type = "Program" -> ProgramMethods
      [] OTHER -> {}

\* A call of op compiles only on a handle whose type has the method.
HasMethod(op) == op \in Methods(handle.type)

(***************************************************************************)
(* The container's load step.                                              *)
(***************************************************************************)
\* The load consumes the open object; it yields the loaded handles or, when
\* the kernel refuses a program, nothing.
Load(ok) ==
    /\ handle.type = "OpenProgram"
    /\ IF ok
       THEN /\ handle' = Program_new(desc)
            /\ loads' = loads + 1
            /\ last' = [op |-> "load", res |-> Ok("Program")]
       ELSE /\ handle' = [type |-> "Dropped"]
            /\ loads' = loads
            /\ last' = [op |-> "load", res |-> Err(from_raw_os_error(EINVAL))]
    /\ UNCHANGED <<input, desc, links, klinks, detaches, sockmaps, pinned>>

(***************************************************************************)
(* OpenProgram: the setters.                                               *)
(***************************************************************************)
\* What a libbpf setter answers: 0, or a negated errno and no change.
SetterRets == {0, -EINVAL}

set_prog_type(prog_type) ==
    /\ HasMethod("set_prog_type")
    /\ desc' = [desc EXCEPT !.type = ProgramType_as_u32(prog_type)]
    /\ last' = [op |-> "set_prog_type", arg |-> prog_type, kcalls |-> 1,
                res |-> Unit]
    /\ UNCHANGED <<input, handle, loads, links, klinks, detaches, sockmaps, pinned>>

set_attach_type(attach_type) ==
    /\ HasMethod("set_attach_type")
    /\ desc' = [desc EXCEPT
                  !.expected_attach_type = ProgramAttachType_as_u32(attach_type)]
    /\ last' = [op |-> "set_attach_type", arg |-> attach_type, kcalls |-> 1,
                res |-> Unit]
    /\ UNCHANGED <<input, handle, loads, links, klinks, detaches, sockmaps, pinned>>

set_ifindex(idx) ==
    /\ HasMethod("set_ifindex")
    /\ desc' = [desc EXCEPT !.ifindex = idx]
    /\ last' = [op |-> "set_ifindex", arg |-> idx, kcalls |-> 1, res |-> Unit]
    /\ UNCHANGED <<input, handle, loads, links, klinks, detaches, sockmaps, pinned>>

\* A variant of set_log_level: libbpf's status is dropped.
set_log_level_unparsed(log_level, ret) ==
    /\ HasMethod("set_log_level")
    /\ desc' = IF ret = 0 THEN [desc EXCEPT !.log_level = log_level] ELSE desc
    /\ last' = [op |-> "set_log_level", arg |-> log_level, kcalls |-> 1,
                ret |-> ret, res |-> Ok(Unit)]
    /\ UNCHANGED <<input, handle, loads, links, klinks, detaches, sockmaps, pinned>>

set_log_level(log_level, ret) ==
    /\ HasMethod("set_log_level")
    /\ desc' = IF ret = 0 THEN [desc EXCEPT !.log_level = log_level] ELSE desc
    /\ last' = [op |-> "set_log_level", arg |-> log_level, kcalls |-> 1,
                ret |-> ret, res |-> parse_ret(ret)]
    /\ UNCHANGED <<input, handle, loads, links, klinks, detaches, sockmaps, pinned>>

set_autoload(autoload, ret) ==
    /\ HasMethod("set_autoload")
    /\ desc' = IF ret = 0 THEN [desc EXCEPT !.autoload = autoload] ELSE desc
    /\ last' = [op |-> "set_autoload", arg |-> autoload, kcalls |-> 1,
                ret |-> ret, res |-> parse_ret(ret)]
    /\ UNCHANGED <<input, handle, loads, links, klinks, detaches, sockmaps, pinned>>

\* attach_func_name, an Option<String>, is <<>> for None and <<name>> for
\* Some(name); the name is encoded first and an encoding failure returns
\* before libbpf is called.  A null name pointer is the empty sequence.
set_attach_target(attach_prog_fd, attach_func_name, ret) ==
    /\ HasMethod("set_attach_target")
    /\ LET name_c == IF attach_func_name = <<>> THEN Ok(<<>>)
                     ELSE str_to_cstring(attach_func_name[1])
       IN  IF ~name_c.ok
           THEN /\ ret = 0
                /\ desc' = desc
                /\ last' = [op |-> "set_attach_target",
                            arg |-> attach_func_name, kcalls |-> 0,
                            res |-> name_c]
           ELSE /\ desc' = IF ret = 0
                           THEN [desc EXCEPT !.attach_target =
                                   <<attach_prog_fd, name_c.val>>]
                           ELSE desc
                /\ last' = [op |-> "set_attach_target",
                            arg |-> attach_func_name, kcalls |-> 1,
                            ret |-> ret, res |-> parse_ret(ret)]
    /\ UNCHANGED <<input, handle, loads, links, klinks, detaches, sockmaps, pinned>>

set_flags(flags, ret) ==
    /\ HasMethod("set_flags")
    /\ desc' = IF ret = 0 THEN [desc EXCEPT !.flags = flags] ELSE desc
    /\ last' = [op |-> "set_flags", arg |-> flags, kcalls |-> 1,
                ret |-> ret, res |-> parse_ret(ret)]
    /\ UNCHANGED <<input, handle, loads, links, klinks, detaches, sockmaps, pinned>>

(***************************************************************************)
(* Program: the attach family.                                             *)
(***************************************************************************)
\* What a libbpf attach primitive may answer in the current kernel state: a
\* pointer to a new bpf_link (the lowest unused link), or NULL.
AttachAnswers ==
    {NULL} \cup
    (IF \E k \in LinkIds : klinks[k] = "none"
     THEN {CHOOSE k \in LinkIds :
             /\ klinks[k] = "none"
             /\ \A j \in LinkIds : klinks[j] = "none" => k <= j}
     ELSE {})

\* util::create_bpf_entity_checked: the pointer, checked for an error.
create_bpf_entity_checked(ptr) ==
    IF ptr = NULL THEN Err(from_raw_os_error(EINVAL)) ELSE Ok(ptr)

\* Link::new: the handle of the link behind ptr, live from now on.
Link_new(ls, ptr) == [ls EXCEPT ![ptr] = "live"]

\* The first encoding that failed, if any: each `?` returns at once.
FirstErr(encs) ==
    LET bad == {i \in 1..Len(encs) : ~encs[i].ok}
    IN  IF bad = {} THEN Ok(Unit)
        ELSE encs[CHOOSE i \in bad : \A j \in bad : i <= j]

\* A variant of AttachResult: the pointer is wrapped without the check.
AttachResultUnchecked(ls, ptr) ==
    [res |-> Ok(ptr), links |-> IF ptr = NULL THEN ls ELSE Link_new(ls, ptr)]

\* A variant of AttachResult: the checked pointer is dropped, not wrapped.
AttachResultUnwrapped(ls, ptr) ==
    [res |-> create_bpf_entity_checked(ptr), links |-> ls]

\* create_bpf_entity_checked(|| primitive).map(|ptr| Link::new(ptr)), for the
\* primitive's answer ptr: what the call returns and the handles after it.
AttachResult(ls, ptr) ==
    LET checked == create_bpf_entity_checked(ptr)
    IN  [res |-> checked,
         links |-> IF checked.ok THEN Link_new(ls, checked.val) ELSE ls]

\* A variant of AttachVia: the primitive is invoked before the encodings
\* are looked at.
AttachViaLate(op, encs, ptr) ==
    /\ HasMethod(op)
    /\ ptr \in AttachAnswers
    /\ klinks' = IF ptr = NULL THEN klinks
                 ELSE [klinks EXCEPT ![ptr] = "attached"]
    /\ IF ~FirstErr(encs).ok
       THEN /\ links' = links
            /\ last' = [op |-> op, encs |-> encs, kcalls |-> 1,
                        kret |-> ptr, res |-> FirstErr(encs)]
       ELSE /\ links' = AttachResult(links, ptr).links
            /\ last' = [op |-> op, encs |-> encs, kcalls |-> 1,
                        kret |-> ptr, res |-> AttachResult(links, ptr).res]
    /\ UNCHANGED <<input, handle, loads, desc, detaches, sockmaps, pinned>>

\* The body every Link-returning variant shares: the encodings, each
\* returning early on failure; then the primitive, called once, answering
\* ptr; then the checked wrap.
AttachVia(op, encs, ptr) ==
    /\ HasMethod(op)
    /\ IF ~FirstErr(encs).ok
       THEN /\ ptr = NULL
            /\ last' = [op |-> op, encs |-> encs, kcalls |-> 0,
                        kret |-> NULL, res |-> FirstErr(encs)]
            /\ UNCHANGED <<links, klinks>>
       ELSE /\ ptr \in AttachAnswers
            /\ klinks' = IF ptr = NULL THEN klinks
                         ELSE [klinks EXCEPT ![ptr] = "attached"]
            /\ links' = AttachResult(links, ptr).links
            /\ last' = [op |-> op, encs |-> encs, kcalls |-> 1,
                        kret |-> ptr, res |-> AttachResult(links, ptr).res]
    /\ UNCHANGED <<input, handle, loads, desc, detaches, sockmaps, pinned>>

attach(ptr) == AttachVia("attach", <<>>, ptr)

attach_cgroup(ptr) == AttachVia("attach_cgroup", <<>>, ptr)

attach_perf_event(ptr) == AttachVia("attach_perf_event", <<>>, ptr)

attach_uprobe(binary_path, ptr) ==
    AttachVia("attach_uprobe", <<path_to_cstring(binary_path)>>, ptr)

attach_uprobe_with_opts(binary_path, func_name, ptr) ==
    AttachVia("attach_uprobe_with_opts",
              <<path_to_cstring(binary_path), str_to_cstring(func_name)>>, ptr)

attach_kprobe(func_name, ptr) ==
    AttachVia("attach_kprobe", <<str_to_cstring(func_name)>>, ptr)

attach_ksyscall(syscall_name, ptr) ==
    AttachVia("attach_ksyscall", <<str_to_cstring(syscall_name)>>, ptr)

attach_tracepoint_impl(op, tp_category, tp_name, ptr) ==
    AttachVia(op, <<str_to_cstring(tp_category), str_to_cstring(tp_name)>>, ptr)

attach_tracepoint(tp_category, tp_name, ptr) ==
    attach_tracepoint_impl("attach_tracepoint", tp_category, tp_name, ptr)

attach_tracepoint_with_opts(tp_category, tp_name, ptr) ==
    attach_tracepoint_impl("attach_tracepoint_with_opts", tp_category,
                           tp_name, ptr)

attach_raw_tracepoint(tp_name, ptr) ==
    AttachVia("attach_raw_tracepoint", <<str_to_cstring(tp_name)>>, ptr)

attach_lsm(ptr) == AttachVia("attach_lsm", <<>>, ptr)

attach_trace(ptr) == AttachVia("attach_trace", <<>>, ptr)

attach_xdp(ptr) == AttachVia("attach_xdp", <<>>, ptr)

attach_netns(ptr) == AttachVia("attach_netns", <<>>, ptr)

attach_usdt_impl(op, binary_path, usdt_provider, usdt_name, ptr) ==
    AttachVia(op, <<path_to_cstring(binary_path),
                    str_to_cstring(usdt_provider),
                    str_to_cstring(usdt_name)>>, ptr)

attach_usdt(binary_path, usdt_provider, usdt_name, ptr) ==
    attach_usdt_impl("attach_usdt", binary_path, usdt_provider, usdt_name, ptr)

attach_usdt_with_opts(binary_path, usdt_provider, usdt_name, ptr) ==
    attach_usdt_impl("attach_usdt_with_opts", binary_path, usdt_provider,
                     usdt_name, ptr)

attach_iter(ptr) == AttachVia("attach_iter", <<>>, ptr)

\* Program::attach_type: the descriptor's code as a variant, Unknown when
\* the code is not declared.
Program_attach_type(d) ==
    LET r == ProgramAttachType_try_from(d.expected_attach_type)
    IN  IF r.ok THEN r.val ELSE Unknown

\* A variant of attach_sockmap: a successful attach is wrapped in a Link.
attach_sockmap_linked(map_fd, err) ==
    /\ HasMethod("attach_sockmap")
    /\ LET type == ProgramAttachType_as_u32(Program_attach_type(desc))
           free == {k \in LinkIds : klinks[k] = "none"}
           ptr == IF err = 0 /\ free # {}
                  THEN CHOOSE k \in free : \A j \in free : k <= j
                  ELSE NULL
       IN  /\ sockmaps' = sockmaps
           /\ klinks' = IF ptr = NULL THEN klinks
                        ELSE [klinks EXCEPT ![ptr] = "attached"]
           /\ links' = IF ptr = NULL THEN links ELSE Link_new(links, ptr)
           /\ last' = [op |-> "attach_sockmap", map_fd |-> map_fd,
                       kcalls |-> 1, ret |-> err, type |-> type,
                       res |-> parse_ret(err)]
    /\ UNCHANGED <<input, handle, loads, desc, detaches, pinned>>

\* attach_sockmap: the legacy attach by fd; no Link is made.  err is
\* bpf_prog_attach's answer.
attach_sockmap(map_fd, err) ==
    /\ HasMethod("attach_sockmap")
    /\ LET type == ProgramAttachType_as_u32(Program_attach_type(desc))
       IN  /\ sockmaps' = IF err = 0
                          THEN sockmaps \cup {[map_fd |-> map_fd, type |-> type]}
                          ELSE sockmaps
           /\ last' = [op |-> "attach_sockmap", map_fd |-> map_fd,
                       kcalls |-> 1, ret |-> err, type |-> type,
                       res |-> parse_ret(err)]
    /\ UNCHANGED <<input, handle, loads, desc, links, klinks, detaches, pinned>>

(***************************************************************************)
(* Link: release.                                                          *)
(***************************************************************************)
\* The release of the Link of link k (its drop, or an explicit close): a
\* live handle destroys its link, which detaches it; a handle already
\* released has nothing left to do.  Nothing is returned.
Release(k) ==
    /\ links[k] # "none"
    /\ IF links[k] = "live"
       THEN /\ links' = [links EXCEPT ![k] = "released"]
            /\ klinks' = [klinks EXCEPT ![k] = "detached"]
            /\ detaches' = [detaches EXCEPT ![k] = @ + 1]
            /\ last' = [op |-> "release", link |-> k, kcalls |-> 1,
                        res |-> Unit]
       ELSE /\ UNCHANGED <<links, klinks, detaches>>
            /\ last' = [op |-> "release", link |-> k, kcalls |-> 0,
                        res |-> Unit]
    /\ UNCHANGED <<input, handle, loads, desc, sockmaps, pinned>>

(***************************************************************************)
(* Program: pin and unpin.                                                 *)
(***************************************************************************)
\* The C paths that lie on a mounted bpf filesystem.
Bpffs == {<<47, 97, NUL>>, <<47, 98, NUL>>}

\* bpf_program__pin: refused when the path is occupied or not on a bpf
\* filesystem; otherwise the path becomes occupied.
bpf_program__pin(fs, path_c) ==
    IF path_c \in fs THEN [ret |-> -EEXIST, fs |-> fs]
    ELSE IF path_c \notin Bpffs THEN [ret |-> -EINVAL, fs |-> fs]
    ELSE [ret |-> 0, fs |-> fs \cup {path_c}]

\* bpf_program__unpin: refused when nothing is at the path; otherwise the
\* path is free again.
bpf_program__unpin(fs, path_c) ==
    IF path_c \notin fs THEN [ret |-> -ENOENT, fs |-> fs]
    ELSE [ret |-> 0, fs |-> fs \ {path_c}]

\* A variant of pin: the primitive's status is dropped.
pin_unparsed(path) ==
    /\ HasMethod("pin")
    /\ LET path_c == path_to_cstring(path)
       IN  IF ~path_c.ok
           THEN /\ pinned' = pinned
                /\ last' = [op |-> "pin", path |-> path, before |-> pinned,
                            kcalls |-> 0, res |-> path_c]
           ELSE LET k == bpf_program__pin(pinned, path_c.val)
                IN  /\ pinned' = k.fs
                    /\ last' = [op |-> "pin", path |-> path,
                                before |-> pinned, kcalls |-> 1,
                                ret |-> k.ret, res |-> Ok(Unit)]
    /\ UNCHANGED <<input, handle, loads, desc, links, klinks, detaches, sockmaps>>

\* Program::pin: the path is encoded, returning early on failure; the
\* primitive is called once; its status is parsed.
pin(path) ==
    /\ HasMethod("pin")
    /\ LET path_c == path_to_cstring(path)
       IN  IF ~path_c.ok
           THEN /\ pinned' = pinned
                /\ last' = [op |-> "pin", path |-> path, before |-> pinned,
                            kcalls |-> 0, res |-> path_c]
           ELSE LET k == bpf_program__pin(pinned, path_c.val)
                IN  /\ pinned' = k.fs
                    /\ last' = [op |-> "pin", path |-> path,
                                before |-> pinned, kcalls |-> 1,
                                ret |-> k.ret, res |-> parse_ret(k.ret)]
    /\ UNCHANGED <<input, handle, loads, desc, links, klinks, detaches, sockmaps>>

\* A variant of unpin: the pin primitive is called in place of unpin's.
unpin_by_pin(path) ==
    /\ HasMethod("unpin")
    /\ LET path_c == path_to_cstring(path)
       IN  IF ~path_c.ok
           THEN /\ pinned' = pinned
                /\ last' = [op |-> "unpin", path |-> path, before |-> pinned,
                            kcalls |-> 0, res |-> path_c]
           ELSE LET k == bpf_program__pin(pinned, path_c.val)
                IN  /\ pinned' = k.fs
                    /\ last' = [op |-> "unpin", path |-> path,
                                before |-> pinned, kcalls |-> 1,
                                ret |-> k.ret, res |-> parse_ret(k.ret)]
    /\ UNCHANGED <<input, handle, loads, desc, links, klinks, detaches, sockmaps>>

\* Program::unpin: as pin, with the unpin primitive.
unpin(path) ==
    /\ HasMethod("unpin")
    /\ LET path_c == path_to_cstring(path)
       IN  IF ~path_c.ok
           THEN /\ pinned' = pinned
                /\ last' = [op |-> "unpin", path |-> path, before |-> pinned,
                            kcalls |-> 0, res |-> path_c]
           ELSE LET k == bpf_program__unpin(pinned, path_c.val)
                IN  /\ pinned' = k.fs
                    /\ last' = [op |-> "unpin", path |-> path,
                                before |-> pinned, kcalls |-> 1,
                                ret |-> k.ret, res |-> parse_ret(k.ret)]
    /\ UNCHANGED <<input, handle, loads, desc, links, klinks, detaches, sockmaps>>

(***************************************************************************)
(* Program: test_run.                                                      *)
(***************************************************************************)
\* slice_from_array: None for a null pointer, else the slice of num_items.
slice_from_array(items, num_items) ==
    IF items = NullPtr THEN None ELSE Some(items, num_items)

\* The pointer passed for a buffer: `.map(as_ptr).unwrap_or_else(null)`.
PtrOf(buf) == IF buf.some THEN buf.ptr ELSE NullPtr

\* The size passed for a buffer: `.map(|data| data.len() as _).unwrap_or(0)`,
\* the size field being a u32.
SizeOf(buf) == IF buf.some THEN AsU32(buf.len) ELSE W(0)

\* The bpf_test_run_opts test_run hands to the kernel.
TestRunOpts(inp) ==
    [ctx_in |-> PtrOf(inp.context_in),
     ctx_size_in |-> SizeOf(inp.context_in),
     ctx_out |-> PtrOf(inp.context_out),
     ctx_size_out |-> SizeOf(inp.context_out),
     data_in |-> PtrOf(inp.data_in),
     data_size_in |-> SizeOf(inp.data_in),
     data_out |-> PtrOf(inp.data_out),
     data_size_out |-> SizeOf(inp.data_out),
     cpu |-> inp.cpu, flags |-> inp.flags, retval |-> 0]

\* bpf_prog_test_run_opts: the kernel's status is kern.rc, and the return
\* value and the two output sizes of opts are overwritten with the
\* kernel's.
bpf_prog_test_run_opts(opts, kern) ==
    [opts EXCEPT !.retval = kern.retval,
                 !.ctx_size_out = kern.ctx_size_out,
                 !.data_size_out = kern.data_size_out]

\* A variant of TestRunResult: the Output is built whatever the status.
TestRunResultUnparsed(inp, kern) ==
    LET opts == bpf_prog_test_run_opts(TestRunOpts(inp), kern)
    IN  Ok([return_value |-> opts.retval,
            context |-> slice_from_array(opts.ctx_out, opts.ctx_size_out),
            data |-> slice_from_array(opts.data_out, opts.data_size_out)])

\* What test_run returns for an Input and the kernel's answer: the parsed
\* status returns early on an error, else the Output is built from opts.
TestRunResult(inp, kern) ==
    LET opts == bpf_prog_test_run_opts(TestRunOpts(inp), kern)
        rc == parse_ret(kern.rc)
    IN  IF ~rc.ok THEN rc
        ELSE Ok([return_value |-> opts.retval,
                 context |-> slice_from_array(opts.ctx_out, opts.ctx_size_out),
                 data |-> slice_from_array(opts.data_out, opts.data_size_out)])

\* A variant of test_run: a refused run is tried a second time.
test_run_retried(kern) ==
    /\ HasMethod("test_run")
    /\ last' = [op |-> "test_run", input |-> input,
                opts |-> TestRunOpts(input), kern |-> kern,
                kcalls |-> IF kern.rc < 0 THEN 2 ELSE 1,
                res |-> TestRunResult(input, kern)]
    /\ UNCHANGED <<input, handle, loads, desc, links, klinks, detaches, sockmaps,
                   pinned>>

\* Program::test_run(input), the kernel answering kern.
test_run(kern) ==
    /\ HasMethod("test_run")
    /\ last' = [op |-> "test_run", input |-> input,
                opts |-> TestRunOpts(input), kern |-> kern, kcalls |-> 1,
                res |-> TestRunResult(input, kern)]
    /\ UNCHANGED <<input, handle, loads, desc, links, klinks, detaches, sockmaps,
                   pinned>>

(***************************************************************************)
(* The classification accessors and the feature probes.                    *)
(***************************************************************************)
\* OpenProgram::prog_type
OpenProgram_prog_type(d) ==
    LET r == ProgramType_try_from(d.type)
    IN  IF r.ok THEN r.val ELSE Unknown

\* A variant of Program_prog_type: an undeclared code reads as Unspec.
Program_prog_type_unspec(d) ==
    LET r == ProgramType_try_from(d.type)
    IN  IF r.ok THEN r.val ELSE "Unspec"

\* Program::prog_type
Program_prog_type(d) ==
    LET r == ProgramType_try_from(d.type)
    IN  IF r.ok THEN r.val ELSE Unknown

OpenProgramProgType ==
    /\ handle.type = "OpenProgram"
    /\ HasMethod("prog_type")
    /\ last' = [op |-> "OpenProgram::prog_type", code |-> desc.type,
                res |-> OpenProgram_prog_type(desc)]
    /\ UNCHANGED <<input, handle, loads, desc, links, klinks, detaches, sockmaps,
                   pinned>>

ProgramProgType ==
    /\ handle.type = "Program"
    /\ HasMethod("prog_type")
    /\ last' = [op |-> "Program::prog_type", code |-> desc.type,
                res |-> Program_prog_type(desc)]
    /\ UNCHANGED <<input, handle, loads, desc, links, klinks, detaches, sockmaps,
                   pinned>>

ProgramAttachType ==
    /\ HasMethod("attach_type")
    /\ last' = [op |-> "Program::attach_type",
                code |-> desc.expected_attach_type,
                res |-> Program_attach_type(desc)]
    /\ UNCHANGED <<input, handle, loads, desc, links, klinks, detaches, sockmaps,
                   pinned>>

\* OpenProgram::section: the field kept at construction.
OpenProgram_section(h) == h.section

\* OpenProgram::name: read from libbpf at each call.
OpenProgram_name(d) == Ok(d.name)

\* Program::name: the field kept at construction.
Program_name(h) == h.name

\* A variant of Program_section: the other string field is returned.
Program_section_of_name(h) == h.name

\* Program::section: the field kept at construction.
Program_section(h) == h.section

OpenProgramSection ==
    /\ handle.type = "OpenProgram"
    /\ HasMethod("section")
    /\ last' = [op |-> "OpenProgram::section", kcalls |-> 0,
                res |-> OpenProgram_section(handle)]
    /\ UNCHANGED <<input, handle, loads, desc, links, klinks, detaches, sockmaps,
                   pinned>>

OpenProgramName ==
    /\ handle.type = "OpenProgram"
    /\ HasMethod("name")
    /\ last' = [op |-> "OpenProgram::name", kcalls |-> 0,
                res |-> OpenProgram_name(desc)]
    /\ UNCHANGED <<input, handle, loads, desc, links, klinks, detaches, sockmaps,
                   pinned>>

ProgramName ==
    /\ handle.type = "Program"
    /\ HasMethod("name")
    /\ last' = [op |-> "Program::name", kcalls |-> 0,
                res |-> Program_name(handle)]
    /\ UNCHANGED <<input, handle, loads, desc, links, klinks, detaches, sockmaps,
                   pinned>>

ProgramSection ==
    /\ handle.type = "Program"
    /\ HasMethod("section")
    /\ last' = [op |-> "Program::section", kcalls |-> 0,
                res |-> Program_section(handle)]
    /\ UNCHANGED <<input, handle, loads, desc, links, klinks, detaches, sockmaps,
                   pinned>>

\* A variant of ProbeResult: every nonzero answer reads as supported.
ProbeResultNonzero(ret) == IF ret = 0 THEN Ok(FALSE) ELSE Ok(TRUE)

\* The match on libbpf's probe answer that is_supported and
\* is_helper_supported share.
ProbeResult(ret) ==
    CASE ret = 0 -> Ok(FALSE)
      [] ret = 1 -> Ok(TRUE)
      [] OTHER -> Err(from_raw_os_error(-ret))

\* ProgramType::is_supported, libbpf_probe_bpf_prog_type answering ret.
is_supported(self, ret) ==
    /\ last' = [op |-> "is_supported", self |-> self, kcalls |-> 1,
                ret |-> ret, res |-> ProbeResult(ret)]
    /\ UNCHANGED <<input, handle, loads, desc, links, klinks, detaches, sockmaps,
                   pinned>>

\* ProgramType::is_helper_supported, libbpf_probe_bpf_helper answering ret.
is_helper_supported(self, helper_id, ret) ==
    /\ last' = [op |-> "is_helper_supported", self |-> self,
                helper_id |-> helper_id, kcalls |-> 1, ret |-> ret,
                res |-> ProbeResult(ret)]
    /\ UNCHANGED <<input, handle, loads, desc, links, klinks, detaches, sockmaps,
                   pinned>>

(***************************************************************************)
(* The inputs the specifications draw from.                                *)
(***************************************************************************)
\* Names: one that encodes, one with an interior NUL.
GoodName == <<97>>
BadName == <<97, NUL, 98>>
NameInputs == {GoodName, BadName}
\* Paths: two on the bpf filesystem, one elsewhere, one with an interior NUL.
PathInputs == {<<47, 97>>, <<47, 98>>, <<97>>, <<47, NUL, 97>>}
\* Binary paths: one that encodes, one with an interior NUL.
BinaryPaths == {<<47, 97>>, <<47, NUL, 97>>}
MapFds == {3}
ProgFds == {4}
\* What a primitive that returns a status answers.
StatusRets == {0, -EINVAL}
\* The kernel's answers to a test run of Input::default().
DefaultKern ==
    {[rc |-> rc, retval |-> 0, ctx_size_out |-> W(0), data_size_out |-> W(0)] :
       rc \in StatusRets}
AttachPtrs == {NULL} \cup LinkIds

(***************************************************************************)
(* Spec: the lifecycle of one program handle and its attachments.  Each    *)
(* setter is called with one value: a new kind, a new hook kind and a new  *)
(* attach target, and the value libbpf already holds for the rest.         *)
(***************************************************************************)
Setters ==
    \/ \E t \in {"Kprobe"} : set_prog_type(t)
    \/ \E t \in {"SkSkbStreamVerdict"} : set_attach_type(t)
    \/ \E i \in {InitDesc.ifindex} : set_ifindex(i)
    \/ \E l \in {InitDesc.log_level}, ret \in SetterRets : set_log_level(l, ret)
    \/ \E b \in {InitDesc.autoload}, ret \in SetterRets : set_autoload(b, ret)
    \/ \E fd \in ProgFds, n \in {<<GoodName>>, <<BadName>>},
          ret \in SetterRets : set_attach_target(fd, n, ret)
    \/ \E f \in {InitDesc.flags}, ret \in SetterRets : set_flags(f, ret)

Attaches ==
    \/ \E ptr \in AttachPtrs : attach(ptr)
    \/ \E ptr \in AttachPtrs : attach_cgroup(ptr)
    \/ \E ptr \in AttachPtrs : attach_perf_event(ptr)
    \/ \E p \in BinaryPaths, ptr \in AttachPtrs : attach_uprobe(p, ptr)
    \/ \E p \in BinaryPaths, n \in NameInputs, ptr \in AttachPtrs :
          attach_uprobe_with_opts(p, n, ptr)
    \/ \E n \in NameInputs, ptr \in AttachPtrs : attach_kprobe(n, ptr)
    \/ \E n \in NameInputs, ptr \in AttachPtrs : attach_ksyscall(n, ptr)
    \/ \E c \in NameInputs, n \in NameInputs, ptr \in AttachPtrs :
          attach_tracepoint(c, n, ptr)
    \/ \E c \in NameInputs, n \in NameInputs, ptr \in AttachPtrs :
          attach_tracepoint_with_opts(c, n, ptr)
    \/ \E n \in NameInputs, ptr \in AttachPtrs : attach_raw_tracepoint(n, ptr)
    \/ \E ptr \in AttachPtrs : attach_lsm(ptr)
    \/ \E ptr \in AttachPtrs : attach_trace(ptr)
    \/ \E ptr \in AttachPtrs : attach_xdp(ptr)
    \/ \E ptr \in AttachPtrs : attach_netns(ptr)
    \/ \E p \in BinaryPaths, v \in NameInputs, n \in NameInputs,
          ptr \in AttachPtrs : attach_usdt(p, v, n, ptr)
    \/ \E p \in BinaryPaths, v \in NameInputs, n \in NameInputs,
          ptr \in AttachPtrs : attach_usdt_with_opts(p, v, n, ptr)
    \/ \E ptr \in AttachPtrs : attach_iter(ptr)

Next ==
    \/ \E ok \in BOOLEAN : Load(ok)
    \/ Setters
    \/ Attaches
    \/ \E m \in MapFds, err \in StatusRets : attach_sockmap(m, err)
    \/ \E k \in LinkIds : Release(k)
    \/ \E p \in PathInputs : pin(p)
    \/ \E p \in PathInputs : unpin(p)
    \/ \E kern \in DefaultKern : test_run(kern)

Spec == Init /\ [][Next]_vars

(***************************************************************************)
(* SpecTestRun: test_run on every Input the bounds allow.  The caller's    *)
(* Input is fixed at the start; the kernel answers freely.                 *)
(***************************************************************************)
\* Buffer lengths: the ordinary ones, and 2^32, which no u32 holds.
BufLens == {W(n) : n \in 0..MaxBuf} \cup {<<Limb, 0>>}
OptBuf(ptr) == {None} \cup {Some(ptr, len) : len \in BufLens}
Inputs ==
    [context_in : OptBuf("context_in"), context_out : OptBuf("context_out"),
     data_in : OptBuf("data_in"), data_out : OptBuf("data_out"),
     cpu : {0}, flags : {0}]
\* The sizes the kernel may write back.
KernSizes == {W(n) : n \in 0..(MaxBuf + 1)}
KernAnswers ==
    [rc : StatusRets, retval : {0, 1}, ctx_size_out : KernSizes,
     data_size_out : KernSizes]

InitTestRun ==
    /\ desc = InitDesc
    /\ handle = OpenProgram_new(InitDesc)
    /\ loads = 0
    /\ links = [k \in LinkIds |-> "none"]
    /\ klinks = [k \in LinkIds |-> "none"]
    /\ detaches = [k \in LinkIds |-> 0]
    /\ sockmaps = {}
    /\ pinned = {}
    /\ input \in Inputs
    /\ last = [op |-> "new", res |-> Ok("OpenProgram")]

NextTestRun ==
    \/ \E ok \in BOOLEAN : Load(ok)
    \/ \E kern \in KernAnswers : test_run(kern)

SpecTestRun == InitTestRun /\ [][NextTestRun]_vars

(***************************************************************************)
(* SpecKinds: the classification accessors and the feature probes, on      *)
(* every code the descriptor may hold.                                     *)
(***************************************************************************)
\* Codes at and around the ends of the declared ranges.
KernelCodes ==
    {W(0), W(31), W(32), W(41), W(42), <<Limb \div 2, 0>>,
     <<Limb - 1, Limb - 2>>, U32Max}
\* What libbpf's feature probes answer: 0, 1 or a negated errno.
ProbeRets == {-4095, -EINVAL, -EPERM, 0, 1}

InitKinds ==
    /\ \E t \in KernelCodes, a \in KernelCodes :
          desc = [InitDesc EXCEPT !.type = t, !.expected_attach_type = a]
    /\ handle = OpenProgram_new(InitDesc)
    /\ loads = 0
    /\ links = [k \in LinkIds |-> "none"]
    /\ klinks = [k \in LinkIds |-> "none"]
    /\ detaches = [k \in LinkIds |-> 0]
    /\ sockmaps = {}
    /\ pinned = {}
    /\ input = DefaultInput
    /\ last = [op |-> "new", res |-> Ok("OpenProgram")]

NextKinds ==
    \/ \E ok \in BOOLEAN : Load(ok)
    \/ \E t \in VariantsOf(ProgramTypeVariants) : set_prog_type(t)
    \/ OpenProgramProgType
    \/ ProgramProgType
    \/ ProgramAttachType
    \/ \E t \in {"Kprobe", Unknown}, ret \in ProbeRets : is_supported(t, ret)
    \/ \E t \in {"Kprobe", Unknown}, id \in {1}, ret \in ProbeRets :
          is_helper_supported(t, id, ret)

SpecKinds == InitKinds /\ [][NextKinds]_vars

(***************************************************************************)
(* SpecAll: the lifecycle of Spec with the accessors and the feature       *)
(* probes interleaved.                                                     *)
(***************************************************************************)
Accessors ==
    \/ OpenProgramSection
    \/ OpenProgramName
    \/ OpenProgramProgType
    \/ ProgramName
    \/ ProgramSection
    \/ ProgramProgType
    \/ ProgramAttachType

Probes ==
    \/ \E ret \in ProbeRets : is_supported("Kprobe", ret)
    \/ \E ret \in ProbeRets : is_helper_supported("Kprobe", 1, ret)

NextAll ==
    \/ Next
    \/ Accessors
    \/ Probes

SpecAll == Init /\ [][NextAll]_vars

(***************************************************************************)
(* SpecSetters: an OpenProgram under its setters, with every program kind  *)
(* and a new value for each field, and prog_type() read in between.        *)
(***************************************************************************)
NextSetters ==
    \/ \E t \in VariantsOf(ProgramTypeVariants) : set_prog_type(t)
    \/ \E t \in {"SkSkbStreamVerdict"} : set_attach_type(t)
    \/ \E i \in {InitDesc.ifindex} : set_ifindex(i)
    \/ \E l \in {1}, ret \in SetterRets : set_log_level(l, ret)
    \/ \E b \in {FALSE}, ret \in SetterRets : set_autoload(b, ret)
    \/ \E fd \in ProgFds, n \in {<<>>, <<GoodName>>, <<BadName>>},
          ret \in SetterRets : set_attach_target(fd, n, ret)
    \/ \E f \in {1}, ret \in SetterRets : set_flags(f, ret)
    \/ OpenProgramProgType

SpecSetters == Init /\ [][NextSetters]_vars

(***************************************************************************)
(* SpecSockmap: attach_sockmap on every code the descriptor may hold as    *)
(* its expected attach type.                                               *)
(***************************************************************************)
NextSockmap ==
    \/ \E ok \in BOOLEAN : Load(ok)
    \/ ProgramAttachType
    \/ \E m \in MapFds, err \in StatusRets : attach_sockmap(m, err)

SpecSockmap == InitKinds /\ [][NextSockmap]_vars

(***************************************************************************)
(* Properties of the attach family, the lifecycle and the Link (Spec).     *)
(***************************************************************************)
\* The handles a step constructs.
NewLinks == {k \in LinkIds : links[k] = "none" /\ links'[k] # "none"}

\* C1: for every attach variant that returns a Link, a call whose kernel
\* primitive succeeds returns exactly one handle, the one of the new
\* attachment, and constructs no other; a call whose primitive fails (or is
\* never reached) returns an error, constructs no handle and leaves the
\* handles and the kernel's attachments as they were.
C1_AttachOneHandleOrError ==
    [][last'.op \in LinkAttachMethods =>
         /\ (last'.kcalls = 1 /\ last'.kret # NULL) =>
               /\ last'.res.ok
               /\ NewLinks = {last'.res.val}
               /\ last'.res.val = last'.kret
               /\ links'[last'.res.val] = "live"
               /\ \A k \in LinkIds \ NewLinks : links'[k] = links[k]
         /\ (last'.kcalls = 0 \/ last'.kret = NULL) =>
               /\ ~last'.res.ok
               /\ NewLinks = {}
               /\ links' = links
               /\ klinks' = klinks]_vars

\* A failed attach primitive while an earlier attachment is live.
C1_Witness ==
    /\ last.op \in LinkAttachMethods
    /\ last.kcalls = 1
    /\ last.kret = NULL
    /\ \E k \in LinkIds : links[k] = "live" /\ klinks[k] = "attached"

\* The operations of a loaded program the lifecycle claim names.
LoadedOps == LinkAttachMethods \cup {"attach_sockmap", "test_run", "pin", "unpin"}
\* The configuration setters.
SetterOps ==
    {"set_prog_type", "set_attach_type", "set_ifindex", "set_log_level",
     "set_autoload", "set_attach_target", "set_flags"}

\* C2: the handle goes from Unloaded to Loaded at most once and never back;
\* every attach, test_run, pin and unpin is executed on a Loaded handle, and
\* every setter on an Unloaded one.
C2_LoadOnceThenOperate ==
    /\ [](loads <= 1 /\ (handle.type = "Program" <=> loads = 1))
    /\ [][/\ handle.type = "Program" => handle'.type = "Program"
          /\ handle'.type = "OpenProgram" => handle.type = "OpenProgram"
          /\ last'.op \in LoadedOps =>
                handle.type = "Program" /\ handle'.type = "Program"
          /\ last'.op \in SetterOps =>
                handle.type = "OpenProgram" /\ handle'.type = "OpenProgram"]_vars

\* An attach that succeeded on a handle configured as a kprobe, then loaded.
C2_Witness ==
    /\ handle.type = "Program"
    /\ loads = 1
    /\ desc.type = ProgramType_as_u32("Kprobe")
    /\ last.op = "attach_kprobe"
    /\ last.res.ok

OutBufs ==
    {[buf |-> "context_out", size |-> "ctx_size_out", out |-> "context"],
     [buf |-> "data_out", size |-> "data_size_out", out |-> "data"]}

\* x <= y, of two machine integers.
Le(x, y) == x[1] < y[1] \/ (x[1] = y[1] /\ x[2] <= y[2])

\* C4: after a successful test_run, each output buffer the caller supplied
\* comes back as a slice whose length is the size the kernel reported and is
\* no greater than the buffer's capacity, whatever size the kernel wrote.
C4_OutputWithinCapacity ==
    (last.op = "test_run" /\ last.res.ok) =>
        \A b \in OutBufs :
            last.input[b.buf].some =>
                /\ last.res.val[b.out].some
                /\ last.res.val[b.out].len = last.kern[b.size]
                /\ Le(last.res.val[b.out].len, last.input[b.buf].len)

\* C5: when the kernel's test-run primitive returns a negative status,
\* test_run returns the error of that status and no Output: no return
\* value, no context slice, no data slice.
C5_NegativeStatusNoOutput ==
    (last.op = "test_run" /\ last.kern.rc < 0) =>
        /\ ~last.res.ok
        /\ DOMAIN last.res = {"ok", "err"}
        /\ last.res.err = from_raw_os_error(-last.kern.rc)

\* A refused test run whose caller supplied both output buffers and whose
\* kernel wrote a return value and sizes nonetheless.
C5_Witness ==
    /\ last.op = "test_run"
    /\ last.kern.rc < 0
    /\ last.input.context_out.some
    /\ last.input.data_out.some
    /\ last.kern.retval # 0
    /\ last.kern.data_size_out # W(0)

\* The four buffers of an Input.
Buffers == {"context_in", "context_out", "data_in", "data_out"}

\* A buffer that is absent or of length zero.
AbsentOrEmpty(buf) == ~buf.some \/ buf.len = W(0)

\* C6: for every combination of absent or zero-length buffers, a test_run
\* whose kernel call succeeds returns Ok; an absent output buffer comes back
\* absent, a zero-length one present and empty, and no slice has a null
\* pointer.
C6_AbsentOrEmptyBuffers ==
    (/\ last.op = "test_run"
     /\ last.kern.rc >= 0
     /\ \A f \in Buffers : AbsentOrEmpty(last.input[f])) =>
        /\ last.res.ok
        /\ \A b \in OutBufs :
              /\ ~last.input[b.buf].some => last.res.val[b.out] = None
              /\ last.input[b.buf].some =>
                    /\ last.res.val[b.out].some
                    /\ last.res.val[b.out].len = W(0)
              /\ last.res.val[b.out].some => last.res.val[b.out].ptr # NullPtr

(***************************************************************************)
(* Properties of the accessors and the probes (SpecKinds).                 *)
(***************************************************************************)
\* The declaration an accessor reads its variant from.
DeclOf(op) ==
    IF op = "Program::attach_type" THEN ProgramAttachTypeVariants
    ELSE ProgramTypeVariants
AccessorOps ==
    {"OpenProgram::prog_type", "Program::prog_type", "Program::attach_type"}

\* C7: for every 32-bit code the descriptor holds, each accessor returns a
\* variant of its enum: the one whose discriminant is the code when the code
\* is declared, Unknown for every other code.
C7_CodesToVariants ==
    last.op \in AccessorOps =>
        /\ last.res \in VariantsOf(DeclOf(last.op))
        /\ IF last.code \in CodesOf(DeclOf(last.op))
           THEN AsDiscriminant(DeclOf(last.op), last.res) = last.code
           ELSE last.res = Unknown

\* Program::prog_type on a code one past the last declared kind.
C7_Witness ==
    /\ last.op = "Program::prog_type"
    /\ last.code = W(Len(ProgramTypeVariants))
    /\ last.res = Unknown

ProbeOps == {"is_supported", "is_helper_supported"}

\* C8: both probes return Ok(false) when the primitive answers 0, Ok(true)
\* when it answers 1, and otherwise, the answer being a negated errno, the
\* error of that errno.
C8_ProbeTriState ==
    last.op \in ProbeOps =>
        /\ last.ret = 0 => last.res = Ok(FALSE)
        /\ last.ret = 1 => last.res = Ok(TRUE)
        /\ last.ret \notin {0, 1} =>
              /\ last.ret < 0
              /\ ~last.res.ok
              /\ last.res.err = [kind |-> "Os", errno |-> 0 - last.ret]

\* A helper probe the kernel refuses for lack of permission.
C8_Witness ==
    /\ last.op = "is_helper_supported"
    /\ last.ret = -EPERM
    /\ ~last.res.ok

(***************************************************************************)
(* Properties of pin and unpin (Spec).                                     *)
(***************************************************************************)
\* The path is free in fs: nothing occupies it.
Free(fs, path) ==
    ~(path_to_cstring(path).ok /\ path_to_cstring(path).val \in fs)

\* The step is unpin(p) right after pin(p), p free before the pin.
PinThenUnpin ==
    /\ last.op = "pin"
    /\ Free(last.before, last.path)
    /\ last'.op = "unpin"
    /\ last'.path = last.path

\* C9 as stated: for every free path p, pin(p) followed immediately by
\* unpin(p) both succeed, and the occupied paths are then what they were
\* before the pin.
C9_PinUnpinEveryFreePath ==
    [][PinThenUnpin =>
         /\ last.res.ok
         /\ last'.res.ok
         /\ pinned' = last.before]_vars

\* C9: for every free path p on which pin(p) succeeds, an immediately
\* following unpin(p) succeeds, and the occupied paths are then what they
\* were before the pin.
C9_PinUnpinRoundTrip ==
    [][(PinThenUnpin /\ last.res.ok) =>
         /\ last'.res.ok
         /\ pinned' = last.before
         /\ Free(pinned', last.path)]_vars

\* An unpin that succeeded and left another path occupied.
C9_Witness ==
    /\ last.op = "unpin"
    /\ last.res.ok
    /\ pinned # {}
    /\ Free(pinned, last.path)
    /\ ~Free(last.before, last.path)

PublicOps == LoadedOps \cup SetterOps \cup ProbeOps
\* The operations whose primitive answers with a status.
StatusOps ==
    {"attach_sockmap", "test_run", "pin", "unpin", "set_log_level",
     "set_autoload", "set_attach_target", "set_flags"}

\* The kernel rejected the latest call.
Rejected ==
    /\ last.kcalls >= 1
    /\ CASE last.op \in LinkAttachMethods -> last.kret = NULL
         [] last.op = "test_run" -> last.kern.rc < 0
         [] last.op \in StatusOps \ {"test_run"} -> last.ret < 0
         [] last.op \in ProbeOps -> last.ret \notin {0, 1}
         [] OTHER -> FALSE

\* C11: every public operation invokes its kernel primitive at most once
\* per call; when the kernel rejects the call the primitive was invoked
\* exactly once and the operation returns an error.
C11_NoRetry ==
    last.op \in PublicOps =>
        /\ last.kcalls <= 1
        /\ Rejected => last.kcalls = 1 /\ ~last.res.ok

\* A test run the kernel refused.
C11_Witness ==
    /\ last.op = "test_run"
    /\ Rejected
    /\ last.kcalls = 1
    /\ ~last.res.ok

(***************************************************************************)
(* Properties of attach_sockmap (Spec).                                    *)
(***************************************************************************)
\* C12: attach_sockmap returns no handle and makes none; when it succeeds
\* the kernel holds the attachment, which no handle owns; no operation of
\* this core, a handle's release included, removes an attachment made by
\* fd.
C12_SockmapWithoutHandle ==
    [][/\ last'.op = "attach_sockmap" =>
             /\ links' = links
             /\ klinks' = klinks
             /\ last'.ret = 0 =>
                   /\ last'.res = Ok(Unit)
                   /\ sockmaps' = sockmaps \cup
                         {[map_fd |-> last'.map_fd, type |-> last'.type]}
             /\ last'.ret # 0 => sockmaps' = sockmaps
       /\ sockmaps \subseteq sockmaps']_vars

\* Every handle made has been released and the attachment by fd remains.
C12_Witness ==
    /\ sockmaps # {}
    /\ last.op = "release"
    /\ last.kcalls = 1
    /\ \A k \in LinkIds : links[k] = "released"

(***************************************************************************)
(* Properties of the identity fields (SpecAll).                            *)
(***************************************************************************)
\* C13: the identity fields are fixed at construction: no operation on a
\* handle changes its fields, and after any sequence of operations
\* section() and, for a Program, name() return what the handle read when it
\* was constructed.
C13_IdentityFixed ==
    /\ [](/\ last.op \in {"OpenProgram::section", "Program::section"} =>
                last.res = InitDesc.section
          /\ last.op = "Program::name" => last.res = InitDesc.name)
    /\ [][handle'.type = handle.type => handle' = handle]_vars

\* section() of a Program that was configured, loaded, attached and pinned.
C13_Witness ==
    /\ last.op = "Program::section"
    /\ last.res = SectionName
    /\ desc.type # InitDesc.type
    /\ pinned # {}
    /\ \E k \in LinkIds : links[k] = "live"

(***************************************************************************)
(* Properties of the setters (SpecSetters).                                *)
(***************************************************************************)
\* The setters that return a result.
ResultSetters ==
    {"set_log_level", "set_autoload", "set_attach_target", "set_flags"}

\* prog_type() right after set_prog_type(k) returns k, for every kind k.
SetThenGetKind ==
    (last.op = "set_prog_type" /\ last'.op = "OpenProgram::prog_type") =>
        last'.res = last.arg

\* A setter that succeeded has written its argument to the descriptor.
SetterApplied ==
    /\ last.op = "set_prog_type" => desc.type = ProgramType_as_u32(last.arg)
    /\ last.op = "set_attach_type" =>
          desc.expected_attach_type = ProgramAttachType_as_u32(last.arg)
    /\ last.op = "set_ifindex" => desc.ifindex = last.arg
    /\ (last.op = "set_log_level" /\ last.res.ok) => desc.log_level = last.arg
    /\ (last.op = "set_autoload" /\ last.res.ok) => desc.autoload = last.arg
    /\ (last.op = "set_flags" /\ last.res.ok) => desc.flags = last.arg

\* The latest call was refused by libbpf.
StatusNegative == last.kcalls = 1 /\ last.ret < 0

\* The latest call's function name cannot be encoded.
NameUnencodable == last.arg # <<>> /\ HasNul(last.arg[1])

\* C15 as stated: setters take effect at once, prog_type() after
\* set_prog_type(k) returns k, and a setter that returns a result returns
\* an error exactly when the underlying call reports a negative status.
C15_ErrorIffNegativeStatus ==
    /\ [][SetThenGetKind]_vars
    /\ [](/\ SetterApplied
          /\ last.op \in ResultSetters => (~last.res.ok <=> StatusNegative))

\* C15: setters take effect at once, prog_type() after set_prog_type(k)
\* returns k, and a setter that returns a result returns an error exactly
\* when the underlying call reports a negative status or, for
\* set_attach_target, when the function name cannot be encoded, the
\* underlying call then not being made.
C15_ErrorIffRefusedOrUnencodable ==
    /\ [][SetThenGetKind]_vars
    /\ [](/\ SetterApplied
          /\ last.op \in ResultSetters =>
                /\ ~last.res.ok <=>
                      \/ StatusNegative
                      \/ last.op = "set_attach_target" /\ NameUnencodable
                /\ (last.op = "set_attach_target" /\ NameUnencodable) =>
                      last.kcalls = 0)

\* prog_type() that returned the kind of the last variant after it was set.
C15_Witness ==
    /\ last.op = "OpenProgram::prog_type"
    /\ last.res = "Syscall"
    /\ desc.type = ProgramType_as_u32("Syscall")
    /\ desc.log_level = 1

(***************************************************************************)
(* Properties of the test-run options (SpecTestRun).                       *)
(***************************************************************************)
\* The four buffers of an Input, each with the pointer field and the size
\* field of the options it is passed in.
BufFields ==
    {[buf |-> "context_in", ptr |-> "ctx_in", size |-> "ctx_size_in"],
     [buf |-> "context_out", ptr |-> "ctx_out", size |-> "ctx_size_out"],
     [buf |-> "data_in", ptr |-> "data_in", size |-> "data_size_in"],
     [buf |-> "data_out", ptr |-> "data_out", size |-> "data_size_out"]}

\* C16: each size field passed to the kernel equals the length of the
\* caller's buffer, with the buffer's pointer, and is 0 with a null pointer
\* when the buffer is absent, for every length, those that do not fit in 32
\* bits included.
C16_SizesAreLengths ==
    last.op = "test_run" =>
        \A b \in BufFields :
            IF last.input[b.buf].some
            THEN /\ last.opts[b.size] = last.input[b.buf].len
                 /\ last.opts[b.ptr] = last.input[b.buf].ptr
            ELSE /\ last.opts[b.size] = W(0)
                 /\ last.opts[b.ptr] = NullPtr

(***************************************************************************)
(* Properties of the encodings (Spec).                                     *)
(***************************************************************************)
\* The operations that take a name or a path.
EncodingOps ==
    {"attach_kprobe", "attach_ksyscall", "attach_uprobe",
     "attach_uprobe_with_opts", "attach_tracepoint",
     "attach_tracepoint_with_opts", "attach_raw_tracepoint", "attach_usdt",
     "attach_usdt_with_opts", "set_attach_target", "pin", "unpin"}

\* An encoding of the call recorded in l fails.
EncodingFails(l) ==
    CASE l.op \in LinkAttachMethods -> \E i \in 1..Len(l.encs) : ~l.encs[i].ok
      [] l.op = "set_attach_target" -> l.arg # <<>> /\ HasNul(l.arg[1])
      [] l.op \in {"pin", "unpin"} -> HasNul(l.path)
      [] OTHER -> FALSE

\* C17: in every operation that takes a name or a path, if any encoding
\* fails the operation returns an error, the kernel primitive is not
\* invoked and nothing changes: no handle is made, and the kernel's
\* attachments, the descriptor and the pinned paths are as before.
C17_EncodeBeforeKernel ==
    [][(last'.op \in EncodingOps /\ EncodingFails(last')) =>
          /\ ~last'.res.ok
          /\ last'.res.err.kind = "InvalidInput"
          /\ last'.kcalls = 0
          /\ NewLinks = {}
          /\ UNCHANGED <<links, klinks, desc, pinned, sockmaps>>]_vars

\* attach_usdt whose third encoding fails after two that succeed, with an
\* earlier attachment live.
C17_Witness ==
    /\ last.op = "attach_usdt"
    /\ last.encs[1].ok
    /\ last.encs[2].ok
    /\ ~last.encs[3].ok
    /\ last.kcalls = 0
    /\ \E k \in LinkIds : links[k] = "live"

(***************************************************************************)
(* Properties of the hook kind attach_sockmap passes (SpecSockmap).        *)
(***************************************************************************)
\* C18: attach_sockmap passes to the attach-by-fd primitive the code the
\* descriptor reports as its expected attach type, for every 32-bit code,
\* those this build does not declare included.
C18_SockmapPassesDescriptorCode ==
    last.op = "attach_sockmap" => last.type = desc.expected_attach_type

====
